---- MODULE Spec2Model ----
(***************************************************************************)
(* RIIGID: rigid-fragment geometry optimization.                           *)
(*                                                                         *)
(* The module models the RIGID front-end object (rigid/rigid.py): its      *)
(* three configuration setters, define_fragment_by_indices and the phases  *)
(* of run(), and the Optimization_Step record (src/optimization_step.py).  *)
(* The optimizer, the structure class and the convergence criterion are    *)
(* imported by rigid.py but their code is not among the sources; they are  *)
(* modelled from the specification's sections 4.1 - 4.4 and 7.             *)
(*                                                                         *)
(* Geometry is one-dimensional with integer coordinates: the properties    *)
(* checked here are about bookkeeping (history, configuration, phases),    *)
(* not about the rotation arithmetic.                                      *)
(***************************************************************************)
EXTENDS Integers, Sequences, FiniteSets, TLC

VARIABLES
    start_structure,        \* RIGID.start_structure
    name,                   \* RIGID.name
    calculator,             \* RIGID.calculator        (Unset until assigned)
    optimizer,              \* RIGID.optimizer         (Unset until assigned)
    convergence_criterion,  \* RIGID.convergence_criterion (Unset until assigned)
    lastCall,               \* the call of the user script that ran last
    error,                  \* the exception that call raised, or NoError
    pc,                     \* position inside RIGID.run
    opt_state,              \* the optimizer's state machine (section 4.4)
    iteration,              \* iterations completed by the optimizer
    retries,                \* calculator retries used in this iteration
    current,                \* the optimizer's current structure
    optimization_history,   \* optimizer.optimization_history
    calculator_called,      \* whether the external calculator was ever called
    files,                  \* files written by run: name -> content
    stdout,                 \* the summary printed by run
    step,                   \* a free-standing Optimization_Step object
    step_given,             \* the arguments that step was constructed with
    step_op                 \* the method last called on step

rigid_vars == <<start_structure, name, calculator, optimizer,
                convergence_criterion, lastCall, error, pc, opt_state,
                iteration, retries, current, optimization_history,
                calculator_called, files, stdout>>
step_vars == <<step, step_given, step_op>>
vars == <<rigid_vars, step_vars>>

----------------------------------------------------------------------------
(* Bounds *)

MaxIter == 3
MaxRetries == 1

----------------------------------------------------------------------------
(* Values *)

\* Python's None, and an instance attribute that was never assigned.
None == [tag |-> "None"]
Unset == [tag |-> "unset"]
NoError == [type |-> "NoError"]
NoArg == [tag |-> "noarg"]

\* A str argument is a sequence of characters; anything else is an object.
Str(chars) == [tag |-> "str", chars |-> chars]
Obj(class, settings) == [tag |-> "obj", class |-> class, settings |-> settings]
isinstance_str(x) == x.tag = "str"

UpperCase == {"A", "C", "D", "E", "G", "I", "L", "M", "N", "P", "S", "T", "V", "W"}
LowerOf == [c \in UpperCase |->
              CASE c = "A" -> "a" [] c = "C" -> "c" [] c = "D" -> "d"
                [] c = "E" -> "e" [] c = "G" -> "g" [] c = "I" -> "i"
                [] c = "L" -> "l" [] c = "M" -> "m" [] c = "N" -> "n"
                [] c = "P" -> "p" [] c = "S" -> "s" [] c = "T" -> "t"
                [] c = "V" -> "v" [] c = "W" -> "w"]
\* str.lower(): every cased character is replaced by its lowercase form.
lower(chars) == [i \in DOMAIN chars |->
                   IF chars[i] \in UpperCase THEN LowerOf[chars[i]] ELSE chars[i]]

vasp == <<"v", "a", "s", "p">>
gdwas == <<"g", "d", "w", "a", "s">>
cc_displacement == <<"c", "c", "_", "d", "i", "s", "p", "l", "a", "c", "e", "m", "e", "n", "t">>

----------------------------------------------------------------------------
(* Inputs of the user script *)

\* RIGID(atoms, name): one coordinate per atom, atom indices are zero-based.
AtomIndices == {0, 1}
AtomsInputs == {[i \in AtomIndices |-> 2 * i]}
NameInputs == {"Benzene"}

\* Index lists handed to define_fragment_by_indices; 2 is out of range.
IndexInputs == SUBSET {0, 1, 2}

\* A settings dict is a set of <<key, value>> pairs; {} is the empty dict.
SettingsInputs == {{}, {<<"key", 1>>}}

CalculatorNames == {vasp, <<"V", "A", "S", "P">>, <<"e", "m", "t">>}
OptimizerNames == {gdwas, <<"G", "D", "W", "A", "S">>, <<"b", "f", "g", "s">>}
CriterionNames == {cc_displacement,
                   <<"C", "C", "_", "D", "i", "s", "p", "l", "a", "c", "e", "m", "e", "n", "t">>,
                   <<"c", "c", "_", "f", "o", "r", "c", "e">>}

\* Objects the user initialized in their own code. An ASE calculator has a
\* parameters attribute; the second object is not a calculator and has none.
CalculatorObjects == {Obj("EMT", {}), Obj("object", {})}
hasattr_parameters(x) == x.class # "object"
OptimizerObjects == {Obj("GDWAS", {<<"user", 1>>})}
CriterionObjects == {Obj("CC_Displacement", {<<"user", 1>>})}

----------------------------------------------------------------------------
(* Exceptions; a message is the sequence of its words *)

CalculatorNotKnown ==
    <<"Calculator", "not", "known", "did", "you", "write", "the", "name",
      "correctly", "Tip", "Maybe", "initialize", "the", "calculator", "in",
      "your", "code", "and", "hand", "it", "to", "RIGID", "instead", "of",
      "handing", "its", "name", "string", "to", "RIGID">>
OptimizerNotKnown ==
    <<"Optimizer", "not", "known", "did", "you", "write", "the", "name",
      "correctly", "Tip", "Maybe", "initialize", "the", "optimizer", "in",
      "your", "code", "and", "hand", "it", "to", "RIGID", "instead", "of",
      "handing", "its", "name", "string", "to", "RIGID">>
CriterionNotKnown ==
    <<"Convergence", "criterion", "not", "known", "did", "you", "write", "the",
      "name", "correctly", "Tip", "Maybe", "initialize", "the", "convergence",
      "criterion", "in", "your", "code", "and", "hand", "it", "to", "RIGID",
      "instead", "of", "handing", "its", "name", "string", "to", "RIGID">>

Exception(msg) == [type |-> "Exception", msg |-> msg]
\* Reading a local variable that no executed statement assigned.
UnboundLocalError(variable) == [type |-> "UnboundLocalError", msg |-> <<variable>>]
\* Reading an instance attribute that was never assigned.
AttributeError(attribute) ==
    [type |-> "AttributeError",
     msg |-> <<"RIGID", "object", "has", "no", "attribute", attribute>>]
OSError(fn) == [type |-> "OSError", msg |-> <<fn>>]

Call(op, arg, settings) == [op |-> op, arg |-> arg, settings |-> settings]

----------------------------------------------------------------------------
(* Structure (spec section 3 and 4.1) *)

Structure(atoms) == [atoms |-> atoms, fragments |-> {}]

ValidationError(indices) == [type |-> "ValidationError", indices |-> indices]

\* An index list is accepted when it is non-empty, in range and claims no
\* atom of an existing fragment.
FragmentOk(structure, indices) ==
    /\ indices # {}
    /\ indices \subseteq DOMAIN structure.atoms
    /\ \A f \in structure.fragments : f \cap indices = {}

Structure_define_fragment_by_indices(structure, indices) ==
    [structure EXCEPT !.fragments = @ \cup {indices}]

----------------------------------------------------------------------------
(* RIGID: construction and configuration *)

RigidInit ==
    /\ \E atoms \in AtomsInputs : start_structure = Structure(atoms)
    /\ name \in NameInputs
    /\ calculator = Unset
    /\ optimizer = Unset
    /\ convergence_criterion = Unset
    /\ lastCall = Call("__init__", NoArg, {})
    /\ error = NoError
    /\ pc = "idle"
    /\ opt_state = "NONE"
    /\ iteration = 0
    /\ retries = 0
    /\ current = None
    /\ optimization_history = <<>>
    /\ calculator_called = FALSE
    /\ files = {}
    /\ stdout = None

run_vars == <<pc, opt_state, iteration, retries, current,
              optimization_history, calculator_called, files, stdout>>

define_fragment_by_indices ==
    /\ pc = "idle"
    /\ \E indices \in IndexInputs :
         /\ lastCall' = Call("define_fragment_by_indices",
                             [tag |-> "indices", indices |-> indices], {})
         /\ IF FragmentOk(start_structure, indices)
            THEN /\ start_structure' =
                       Structure_define_fragment_by_indices(start_structure, indices)
                 /\ error' = NoError
            ELSE /\ error' = ValidationError(indices)
                 /\ UNCHANGED start_structure
    /\ UNCHANGED <<name, calculator, optimizer, convergence_criterion,
                   run_vars, step_vars>>

\* set_calculator with the assignment moved above the name check.
set_calculator_assign_first ==
    /\ pc = "idle"
    /\ \E arg \in {Str(n) : n \in CalculatorNames} \cup CalculatorObjects,
          settings \in SettingsInputs :
         /\ lastCall' = Call("set_calculator", arg, settings)
         /\ IF isinstance_str(arg)
            THEN IF lower(arg.chars) = vasp
                 THEN /\ calculator' = Obj("Vasp", settings)
                      /\ error' = NoError
                 ELSE /\ error' = Exception(CalculatorNotKnown)
                      /\ calculator' = arg
            ELSE \* assigned first, then self.calculator.parameters is printed
                 /\ calculator' = arg
                 /\ error' = IF hasattr_parameters(arg) THEN NoError
                             ELSE [type |-> "AttributeError",
                                   msg |-> <<"object", "has", "no", "attribute",
                                             "parameters">>]
    /\ UNCHANGED <<start_structure, name, optimizer, convergence_criterion,
                   run_vars, step_vars>>

set_calculator ==
    /\ pc = "idle"
    /\ \E arg \in {Str(n) : n \in CalculatorNames} \cup CalculatorObjects,
          settings \in SettingsInputs :
         /\ lastCall' = Call("set_calculator", arg, settings)
         /\ IF isinstance_str(arg)
            THEN IF lower(arg.chars) = vasp
                 THEN /\ calculator' = Obj("Vasp", settings)
                      /\ error' = NoError
                 ELSE /\ error' = Exception(CalculatorNotKnown)
                      /\ UNCHANGED calculator
            ELSE \* assigned first, then self.calculator.parameters is printed
                 /\ calculator' = arg
                 /\ error' = IF hasattr_parameters(arg) THEN NoError
                             ELSE [type |-> "AttributeError",
                                   msg |-> <<"object", "has", "no", "attribute",
                                             "parameters">>]
    /\ UNCHANGED <<start_structure, name, optimizer, convergence_criterion,
                   run_vars, step_vars>>

\* set_optimizer without the else branch that raises.
set_optimizer_no_else ==
    /\ pc = "idle"
    /\ \E arg \in {Str(n) : n \in OptimizerNames} \cup OptimizerObjects,
          settings \in SettingsInputs :
         /\ lastCall' = Call("set_optimizer", arg, settings)
         /\ optimizer' = IF isinstance_str(arg) /\ lower(arg.chars) = gdwas
                         THEN Obj("GDWAS", settings)
                         ELSE arg
         /\ error' = NoError
    /\ UNCHANGED <<start_structure, name, calculator, convergence_criterion,
                   run_vars, step_vars>>

set_optimizer ==
    /\ pc = "idle"
    /\ \E arg \in {Str(n) : n \in OptimizerNames} \cup OptimizerObjects,
          settings \in SettingsInputs :
         /\ lastCall' = Call("set_optimizer", arg, settings)
         /\ IF isinstance_str(arg)
            THEN IF lower(arg.chars) = gdwas
                 THEN /\ optimizer' = Obj("GDWAS", settings)
                      /\ error' = NoError
                 ELSE /\ error' = Exception(OptimizerNotKnown)
                      /\ UNCHANGED optimizer
            ELSE \* provided_optimizer_was_string = False
                 /\ optimizer' = arg
                 /\ error' = NoError
    /\ UNCHANGED <<start_structure, name, calculator, convergence_criterion,
                   run_vars, step_vars>>

set_convergence_criterion ==
    /\ pc = "idle"
    /\ \E arg \in {Str(n) : n \in CriterionNames} \cup CriterionObjects,
          settings \in SettingsInputs :
         /\ lastCall' = Call("set_convergence_criterion", arg, settings)
         /\ IF isinstance_str(arg)
            THEN IF lower(arg.chars) = cc_displacement
                 THEN /\ convergence_criterion' = Obj("CC_Displacement", settings)
                      /\ error' = NoError
                 ELSE /\ error' = Exception(CriterionNotKnown)
                      /\ UNCHANGED convergence_criterion
            ELSE \* the else branch only reads provided_convergence_criterion_was_string,
                 \* which no statement has assigned on this path
                 /\ error' = UnboundLocalError("provided_convergence_criterion_was_string")
                 /\ UNCHANGED convergence_criterion
    /\ UNCHANGED <<start_structure, name, calculator, optimizer,
                   run_vars, step_vars>>

----------------------------------------------------------------------------
(* Optimization_Step (src/optimization_step.py) *)

Optimization_Step(structure, forces, energy, updated_structure) ==
    [structure |-> structure,
     forces |-> forces,
     energy |-> energy,
     updated_structure |-> updated_structure]

\* add_updated_structure variants: the assignment left out, the assignment
\* made to the wrong attribute, and an attach-once version.
add_updated_structure_dropped(self, updated_structure) == self

add_updated_structure_as_structure(self, updated_structure) ==
    [self EXCEPT !.structure = updated_structure]

add_updated_structure_once(self, updated_structure) ==
    IF self.updated_structure = None
    THEN [self EXCEPT !.updated_structure = updated_structure]
    ELSE self

add_updated_structure(self, updated_structure) ==
    [self EXCEPT !.updated_structure = updated_structure]

remove_updated_structure(self) ==
    [self EXCEPT !.updated_structure = None]

----------------------------------------------------------------------------
(* The external calculator, fragment mechanics, the convergence criterion  *)
(* and the optimizer (spec sections 4.2 - 4.4, 6 and 7)                    *)

\* What the calculator may return: one force per atom and a total energy.
ForceValues == {0, 1}
ForceInputs == [AtomIndices -> ForceValues]
EnergyInputs == {0, 1}

RECURSIVE SumOver(_, _)
SumOver(f, S) ==
    IF S = {} THEN 0
    ELSE LET i == CHOOSE j \in S : TRUE IN f[i] + SumOver(f, S \ {i})

net_force(fragment, forces) == SumOver(forces, fragment)

\* Every member of a fragment moves by the fragment's net force (fixed unit
\* step); atoms outside every fragment stay where they are.
compute_update(structure, forces) ==
    [structure EXCEPT !.atoms =
        [i \in DOMAIN structure.atoms |->
            IF \E f \in structure.fragments : i \in f
            THEN LET f == CHOOSE g \in structure.fragments : i \in g
                 IN structure.atoms[i] + net_force(f, forces)
            ELSE structure.atoms[i]]]

Abs(x) == IF x < 0 THEN -x ELSE x

\* The displacement threshold of the displacement-based criterion.
cutoff == 0

\* Converged when no atom moved by more than the threshold between the
\* structures of the last two steps; never on the first step.
is_converged(history) ==
    /\ Len(history) >= 2
    /\ LET a == history[Len(history)].structure.atoms
           b == history[Len(history) - 1].structure.atoms
       IN \A i \in DOMAIN a : Abs(a[i] - b[i]) <= cutoff

FatalError(type, iter, structure) ==
    [type |-> type, iteration |-> iter, last_valid_structure |-> structure]

\* INIT without the fragment check.
optimizer_init_unchecked(structure, calc, criterion) ==
    /\ calc # Unset
    /\ criterion # Unset

\* INIT: the structure has at least one fragment, a calculator and a
\* convergence criterion are set.
optimizer_init_ok(structure, calc, criterion) ==
    /\ structure.fragments # {}
    /\ calc # Unset
    /\ criterion # Unset

\* ITERATING, the calculator answered: one complete iteration.
optimizer_iterate ==
    /\ pc = "optimizing"
    /\ opt_state = "ITERATING"
    /\ \E forces \in ForceInputs, energy \in EnergyInputs :
         LET new_step == Optimization_Step(current, forces, energy, None)
             updated == compute_update(current, forces)
             history == Append(optimization_history,
                               add_updated_structure(new_step, updated))
         IN /\ optimization_history' = history
            /\ current' = updated
            /\ iteration' = iteration + 1
            /\ opt_state' = IF is_converged(history) THEN "CONVERGED"
                            ELSE IF iteration + 1 >= MaxIter THEN "MAX_ITER_REACHED"
                            ELSE "ITERATING"
            /\ pc' = IF opt_state' = "ITERATING" THEN "optimizing" ELSE "save"
    /\ calculator_called' = TRUE
    /\ retries' = 0
    /\ UNCHANGED <<start_structure, name, calculator, optimizer,
                   convergence_criterion, lastCall, error, files, stdout,
                   step_vars>>

\* ITERATING, the calculator failed: retried with the same structure, and
\* fatal once the retries are used up.
optimizer_calculator_error ==
    /\ pc = "optimizing"
    /\ opt_state = "ITERATING"
    /\ calculator_called' = TRUE
    /\ IF retries < MaxRetries
       THEN /\ retries' = retries + 1
            /\ UNCHANGED <<pc, opt_state, error>>
       ELSE /\ opt_state' = "FAILED"
            /\ error' = FatalError("CalculatorError", iteration, current)
            /\ pc' = "raised"
            /\ UNCHANGED retries
    /\ UNCHANGED <<start_structure, name, calculator, optimizer,
                   convergence_criterion, lastCall, iteration, current,
                   optimization_history, files, stdout, step_vars>>

----------------------------------------------------------------------------
(* RIGID.run and its phases *)

\* The call expression of line 206: self.optimizer, then the keyword
\* arguments in order, are evaluated before the optimizer is entered.
run ==
    /\ pc = "idle"
    /\ lastCall' = Call("run", NoArg, {})
    /\ IF optimizer = Unset
       THEN /\ error' = AttributeError("optimizer")
            /\ pc' = "raised"
            /\ UNCHANGED <<opt_state, current>>
       ELSE IF calculator = Unset
       THEN /\ error' = AttributeError("calculator")
            /\ pc' = "raised"
            /\ UNCHANGED <<opt_state, current>>
       ELSE IF convergence_criterion = Unset
       THEN /\ error' = AttributeError("convergence_criterion")
            /\ pc' = "raised"
            /\ UNCHANGED <<opt_state, current>>
       ELSE IF optimizer_init_ok(start_structure, calculator, convergence_criterion)
       THEN /\ opt_state' = "ITERATING"
            /\ current' = start_structure
            /\ error' = NoError
            /\ pc' = "optimizing"
       ELSE /\ opt_state' = "FAILED"
            /\ error' = FatalError("ValidationError", 0, start_structure)
            /\ pc' = "raised"
            /\ UNCHANGED current
    /\ UNCHANGED <<start_structure, name, calculator, optimizer,
                   convergence_criterion, iteration, retries,
                   optimization_history, calculator_called, files, stdout, step_vars>>

\* open(fn, "wb") and Trajectory(fn, "w") fail when the file cannot be
\* created; that is the environment's choice.
save_optimization_history ==
    /\ pc = "save"
    /\ LET fn == name \o ".pk"
       IN \E writable \in BOOLEAN :
            IF writable
            THEN /\ files' = files \cup {[fn |-> fn, content |-> optimization_history]}
                 /\ pc' = "trajectory"
                 /\ UNCHANGED error
            ELSE /\ error' = OSError(fn)
                 /\ pc' = "raised"
                 /\ UNCHANGED files
    /\ UNCHANGED <<start_structure, name, calculator, optimizer,
                   convergence_criterion, lastCall, opt_state, iteration,
                   retries, current, optimization_history, calculator_called, stdout,
                   step_vars>>

\* The loop writing the post-update structure of every step.
RECURSIVE write_frames_updated(_, _)
write_frames_updated(traj, history) ==
    IF history = <<>> THEN traj
    ELSE write_frames_updated(Append(traj, Head(history).updated_structure.atoms),
                              Tail(history))

\* for optimization_step in optimization_history: traj.write(...)
RECURSIVE write_frames(_, _)
write_frames(traj, history) ==
    IF history = <<>> THEN traj
    ELSE write_frames(Append(traj, Head(history).structure.atoms), Tail(history))

\* run with the trajectory written in place of the pickle file.
create_trajectory_before_save ==
    /\ pc \in {"save", "trajectory"}
    /\ LET fn == name \o ".traj"
       IN /\ files' = files \cup
                 {[fn |-> fn, content |-> write_frames(<<>>, optimization_history)]}
          /\ pc' = "summary"
          /\ UNCHANGED error
    /\ UNCHANGED <<start_structure, name, calculator, optimizer,
                   convergence_criterion, lastCall, opt_state, iteration,
                   retries, current, optimization_history, calculator_called, stdout,
                   step_vars>>

create_trajectory_file_from_optimization_history ==
    /\ pc = "trajectory"
    /\ LET fn == name \o ".traj"
       IN \E writable \in BOOLEAN :
            IF writable
            THEN /\ files' = files \cup
                       {[fn |-> fn, content |-> write_frames(<<>>, optimization_history)]}
                 /\ pc' = "summary"
                 /\ UNCHANGED error
            ELSE /\ error' = OSError(fn)
                 /\ pc' = "raised"
                 /\ UNCHANGED files
    /\ UNCHANGED <<start_structure, name, calculator, optimizer,
                   convergence_criterion, lastCall, opt_state, iteration,
                   retries, current, optimization_history, calculator_called, stdout,
                   step_vars>>

\* One line pair per step: its index and its energy.
print_optimization_summary ==
    /\ pc = "summary"
    /\ stdout' = [i \in 1..Len(optimization_history) |->
                    <<i - 1, optimization_history[i].energy>>]
    /\ pc' = "done"
    /\ UNCHANGED <<start_structure, name, calculator, optimizer,
                   convergence_criterion, lastCall, error, opt_state,
                   iteration, retries, current, optimization_history,
                   calculator_called, files, step_vars>>

----------------------------------------------------------------------------
(* The user script: configure, then run *)

\* Calls made on one Optimization_Step object directly, in any order.
StructureInputs == {Structure([i \in AtomIndices |-> a]) : a \in {0, 1, 2}}

StepCall(op, arg, before) == [op |-> op, arg |-> arg, before |-> before]

StepIdle ==
    /\ step = None
    /\ step_given = None
    /\ step_op = StepCall("none", NoArg, None)

step_init ==
    /\ \E structure \in StructureInputs, forces \in ForceInputs,
          energy \in EnergyInputs,
          updated_structure \in StructureInputs \cup {None} :
         /\ step' = Optimization_Step(structure, forces, energy, updated_structure)
         /\ step_given' = [structure |-> structure, forces |-> forces,
                           energy |-> energy]
         /\ step_op' = StepCall("__init__", updated_structure, None)
    /\ UNCHANGED rigid_vars

step_add_updated_structure ==
    /\ step # None
    /\ \E updated_structure \in StructureInputs :
         /\ step' = add_updated_structure(step, updated_structure)
         /\ step_op' = StepCall("add_updated_structure", updated_structure,
                                step.updated_structure)
    /\ UNCHANGED <<rigid_vars, step_given>>

step_remove_updated_structure ==
    /\ step # None
    /\ step' = remove_updated_structure(step)
    /\ step_op' = StepCall("remove_updated_structure", NoArg,
                           step.updated_structure)
    /\ UNCHANGED <<rigid_vars, step_given>>

Init == RigidInit /\ StepIdle

Next ==
    \/ define_fragment_by_indices
    \/ set_calculator
    \/ set_optimizer
    \/ set_convergence_criterion
    \/ run
    \/ optimizer_iterate
    \/ optimizer_calculator_error
    \/ save_optimization_history
    \/ create_trajectory_file_from_optimization_history
    \/ print_optimization_summary

Spec == Init /\ [][Next]_vars

StepNext ==
    \/ step_init
    \/ step_add_updated_structure
    \/ step_remove_updated_structure

StepSpec == Init /\ [][StepNext]_vars

----------------------------------------------------------------------------
(* Properties *)

SetterOps == {"set_calculator", "set_optimizer", "set_convergence_criterion"}

\* The identifier each setter accepts (compared after lower()).
KnownName(op) ==
    CASE op = "set_calculator" -> vasp
      [] op = "set_optimizer" -> gdwas
      [] op = "set_convergence_criterion" -> cc_displacement

NotKnownMessage(op) ==
    CASE op = "set_calculator" -> CalculatorNotKnown
      [] op = "set_optimizer" -> OptimizerNotKnown
      [] op = "set_convergence_criterion" -> CriterionNotKnown

RECURSIVE Join(_)
Join(chars) == IF chars = <<>> THEN "" ELSE Head(chars) \o Join(Tail(chars))

Words(msg) == {msg[i] : i \in DOMAIN msg}

\* The last call was a setter given a string that is not a known name.
UnknownNameCall ==
    /\ lastCall.op \in SetterOps
    /\ isinstance_str(lastCall.arg)
    /\ lower(lastCall.arg.chars) # KnownName(lastCall.op)

\* The last call was a setter given an initialized object.
ObjectCall(op) ==
    /\ lastCall.op = op
    /\ ~isinstance_str(lastCall.arg)

FileNames == {f.fn : f \in files}
FileContent(fn) == (CHOOSE f \in files : f.fn = fn).content

\* C1: set_convergence_criterion given an initialized criterion object
\* completes without raising and stores exactly that object.
C1_ObjectCriterionAccepted ==
    ObjectCall("set_convergence_criterion") =>
        /\ error = NoError
        /\ convergence_criterion = lastCall.arg

\* C2 as stated: an unknown identifier fails with a ConfigurationError whose
\* message names the valid identifiers.
C2_UnknownNameConfigurationError ==
    UnknownNameCall =>
        /\ error.type = "ConfigurationError"
        /\ Join(KnownName(lastCall.op)) \in Words(error.msg)

\* C2 as amended: an unknown identifier fails with a plain Exception whose
\* message says the component is not known and advises handing over an
\* initialized object; the message names no valid identifier.
C2_UnknownNameRaisesException ==
    UnknownNameCall =>
        /\ error = Exception(NotKnownMessage(lastCall.op))
        /\ Join(KnownName(lastCall.op)) \notin Words(error.msg)

C2_Witness ==
    /\ UnknownNameCall
    /\ lastCall.op = "set_optimizer"
    /\ error.type = "Exception"
    /\ optimizer = Unset

C4_ForcesEnergyBelongToStructure ==
    step # None =>
        /\ step.structure = step_given.structure
        /\ step.forces = step_given.forces
        /\ step.energy = step_given.energy

C4_Witness ==
    /\ step # None
    /\ step_op.op = "add_updated_structure"
    /\ step_op.before # None
    /\ step.updated_structure # step.structure

\* C5 as stated: once an updated structure is attached to a step, it is
\* never replaced by a different one, only cleared.
C5_AttachedNeverReplaced ==
    [][(/\ step # None
        /\ step_op'.op # "__init__"
        /\ step.updated_structure # None)
       => step'.updated_structure \in {step.updated_structure, None}]_vars

\* C5 as amended: add_updated_structure stores its argument whether or not
\* an updated structure was attached before, and remove_updated_structure
\* clears it.
C5_AddReplacesRemoveClears ==
    /\ step_op.op = "add_updated_structure" => step.updated_structure = step_op.arg
    /\ step_op.op = "remove_updated_structure" => step.updated_structure = None

C5_Witness ==
    /\ step_op.op = "add_updated_structure"
    /\ step_op.before # None
    /\ step_op.before # step_op.arg
    /\ step.updated_structure = step_op.arg

\* C6: a run whose structure has no fragment, or whose calculator or
\* convergence criterion is not set, never enters ITERATING and never calls
\* the calculator.
C6_InitValidatesBeforeIterating ==
    (/\ lastCall.op = "run"
     /\ \/ start_structure.fragments = {}
        \/ calculator = Unset
        \/ convergence_criterion = Unset)
    => /\ pc = "raised"
       /\ error # NoError
       /\ opt_state \in {"NONE", "FAILED"}
       /\ ~calculator_called
       /\ optimization_history = <<>>

C6_Witness ==
    /\ lastCall.op = "run"
    /\ start_structure.fragments = {}
    /\ optimizer # Unset
    /\ calculator # Unset
    /\ convergence_criterion # Unset
    /\ error.type = "ValidationError"

\* C7: a run that ended with an error hands the caller the iteration index
\* and the last valid structure.
C7_FatalErrorReportsIterationAndStructure ==
    pc = "raised" =>
        {"iteration", "last_valid_structure"} \subseteq DOMAIN error

\* C8: the trajectory file holds one frame per step of the history, in
\* order, frame i being the atoms of step i's structure, and writing it
\* leaves the history as it was.
C8_TrajectoryFramesArePreUpdateStructures ==
    /\ [](name \o ".traj" \in FileNames =>
            LET traj == FileContent(name \o ".traj")
            IN /\ Len(traj) = Len(optimization_history)
               /\ \A i \in 1..Len(traj) :
                    traj[i] = optimization_history[i].structure.atoms)
    /\ [][pc = "trajectory" => optimization_history' = optimization_history]_vars

C8_Witness ==
    /\ name \o ".traj" \in FileNames
    /\ Len(FileContent(name \o ".traj")) >= 2
    /\ \E i \in 1..Len(optimization_history) :
         optimization_history[i].structure.atoms
             # optimization_history[i].updated_structure.atoms

\* C9: run goes optimizer.run, pickle file, trajectory file, summary, each
\* after the previous one completed; a failed optimizer.run leaves no file
\* and no summary.
C9_RunPhasesInOrder ==
    /\ name \o ".pk" \in FileNames =>
          /\ opt_state \in {"CONVERGED", "MAX_ITER_REACHED"}
          /\ pc \in {"trajectory", "summary", "done", "raised"}
    /\ name \o ".traj" \in FileNames =>
          /\ name \o ".pk" \in FileNames
          /\ pc \in {"summary", "done"}
    /\ stdout # None =>
          /\ name \o ".traj" \in FileNames
          /\ pc = "done"
    /\ pc = "done" => stdout # None
    /\ opt_state \in {"NONE", "ITERATING", "FAILED"} =>
          /\ files = {}
          /\ stdout = None

C9_Witness ==
    /\ pc = "done"
    /\ FileNames = {name \o ".pk", name \o ".traj"}
    /\ stdout # None
    /\ Len(stdout) = Len(optimization_history)

\* C10: a setter call that raises for an unknown name leaves calculator,
\* optimizer and convergence criterion as they were, and no setter changes
\* a component other than its own.
C10_FailingSetterKeepsConfiguration ==
    [][lastCall'.op \in SetterOps =>
         /\ (isinstance_str(lastCall'.arg) /\ error' # NoError) =>
              /\ calculator' = calculator
              /\ optimizer' = optimizer
              /\ convergence_criterion' = convergence_criterion
         /\ lastCall'.op # "set_calculator" => calculator' = calculator
         /\ lastCall'.op # "set_optimizer" => optimizer' = optimizer
         /\ lastCall'.op # "set_convergence_criterion" =>
              convergence_criterion' = convergence_criterion]_vars

C10_Witness ==
    /\ UnknownNameCall
    /\ lastCall.op = "set_calculator"
    /\ error.type = "Exception"
    /\ calculator # Unset
    /\ optimizer # Unset
    /\ convergence_criterion # Unset

====
